---- MODULE Spec2Model ----
(***************************************************************************)
(* A model of xgfone/emailmanager: the controller's configuration          *)
(* snapshot (options, merge, validation, atomic publish), the manager's    *)
(* reconciliation of a desired list against its controller table, and the  *)
(* controller's polling loop.                                              *)
(***************************************************************************)
EXTENDS Integers, Sequences, FiniteSets, TLC

\* ------------------------------------------------------------------------
\* Values
\* ------------------------------------------------------------------------

\* The durations given to the duration options: a negative and a positive
\* one (a zero duration leaves the overlay as no option does).
DurVals == {-1, 1}

\* Go slices: a nil slice differs from an empty, non-nil one.
NilSlice == [nil |-> TRUE, elems |-> <<>>]

MakeSlice(s) == [nil |-> FALSE, elems |-> s]

SeqsUpTo(S, n) == UNION {[1 .. k -> S] : k \in 0 .. n}

\* The handler lists and notifier lists given to the options: the merge
\* reads only whether a list is nil, so an empty and a one-element list do.
HandlerLists == {<<>>, <<"rejecttwo">>}

NotifierLists == {<<>>, <<"n1">>, <<"n1", "n2", "n3">>}

\* The default of the max-message count.
DefaultNum == 100

\* emailConfig{}: the zero value.
EmptyEmail ==
    [Num |-> 0, Addr |-> "", Username |-> "", Password |-> "", TLSConf |-> "nil"]

\* config{}: the zero value.
ZeroConfig ==
    [Delay |-> 0, Timeout |-> 0, Interval |-> 0, Email |-> EmptyEmail,
     Handlers |-> NilSlice, Notifiers |-> NilSlice]

\* ------------------------------------------------------------------------
\* Options: an Option is a closure over its constructor's arguments; it is
\* modelled by the record of what the closure captured and ApplyOption.
\* ------------------------------------------------------------------------

NoOption == [kind |-> "none", dur |-> 0, email |-> EmptyEmail, list |-> NilSlice]

EmailOption(addr, username, password, enableTLS, skipTLSVerify, num) ==
    LET n == IF num <= 0 THEN DefaultNum ELSE num
        tlsconf == IF enableTLS
                   THEN (IF skipTLSVerify THEN "skipverify" ELSE "verify")
                   ELSE "nil"
    IN  [NoOption EXCEPT !.kind = "email",
            !.email = [Num |-> n, Addr |-> addr, Username |-> username,
                       Password |-> password, TLSConf |-> tlsconf]]

\* append([]email.Handler{}, handlers...) is never nil.
EmailHandlerOption(handlers) ==
    [NoOption EXCEPT !.kind = "handlers", !.list = MakeSlice(handlers)]

NotifierOption(notifiers) ==
    [NoOption EXCEPT !.kind = "notifiers", !.list = MakeSlice(notifiers)]

DelayOption(delay) == [NoOption EXCEPT !.kind = "delay", !.dur = delay]

TimeoutOption(timeout) == [NoOption EXCEPT !.kind = "timeout", !.dur = timeout]

IntervalOption(interval) == [NoOption EXCEPT !.kind = "interval", !.dur = interval]

\* option(&new)
ApplyOption(c, o) ==
    CASE o.kind = "email" -> [c EXCEPT !.Email = o.email]
      [] o.kind = "handlers" -> [c EXCEPT !.Handlers = o.list]
      [] o.kind = "notifiers" -> [c EXCEPT !.Notifiers = o.list]
      [] o.kind = "delay" -> [c EXCEPT !.Delay = o.dur]
      [] o.kind = "timeout" -> [c EXCEPT !.Timeout = o.dur]
      [] o.kind = "interval" -> [c EXCEPT !.Interval = o.dur]
      [] OTHER -> c

RECURSIVE ApplyOptions(_, _)
ApplyOptions(c, options) ==
    IF options = <<>> THEN c
    ELSE ApplyOptions(ApplyOption(c, Head(options)), Tail(options))

\* A check that forgets the username and the password.
checkAddrOnly(e) ==
    IF e.Addr = "" THEN [err |-> TRUE, email |-> e]
    ELSE [err |-> FALSE,
          email |-> IF e.Num <= 0 THEN [e EXCEPT !.Num = DefaultNum] ELSE e]

\* emailConfig.check: the error result, and the receiver after the call.
check(e) ==
    IF e.Addr = "" \/ e.Username = "" \/ e.Password = "" THEN [err |-> TRUE, email |-> e]
    ELSE [err |-> FALSE,
          email |-> IF e.Num <= 0 THEN [e EXCEPT !.Num = DefaultNum] ELSE e]

\* config.merge: the receiver after the call.
merge(c, new) ==
    LET c1 == IF new.Delay > 0 THEN [c EXCEPT !.Delay = new.Delay] ELSE c
        c2 == IF new.Timeout > 0 THEN [c1 EXCEPT !.Timeout = new.Timeout] ELSE c1
        c3 == IF new.Email # EmptyEmail THEN [c2 EXCEPT !.Email = new.Email] ELSE c2
        c4 == IF ~new.Handlers.nil THEN [c3 EXCEPT !.Handlers = new.Handlers] ELSE c3
        c5 == IF ~new.Notifiers.nil THEN [c4 EXCEPT !.Notifiers = new.Notifiers] ELSE c4
    IN  c5

\* config.reconfigure: the error result, and the receiver after the call.
reconfigure(c, options) ==
    LET new == ApplyOptions(ZeroConfig, options)
        merged == merge(c, new)
        chk == check(merged.Email)
    IN  [err |-> chk.err, config |-> [merged EXCEPT !.Email = chk.email]]

\* ------------------------------------------------------------------------
\* Inputs of NewController and Reconfigure
\* ------------------------------------------------------------------------

\* Arguments of EmailOption: complete credentials (with and without an
\* explicit max-message count, with and without TLS) and each credential
\* missing in turn.
EmailArgs ==
    { <<"imap.a", "u", "p", FALSE, FALSE, 0>>,
      <<"imap.a", "v", "p", TRUE, TRUE, 5>>,
      <<"", "u", "p", FALSE, FALSE, 5>>,
      <<"imap.a", "", "p", FALSE, FALSE, 5>>,
      <<"imap.a", "u", "", FALSE, FALSE, 5>> }

Options ==
    {DelayOption(d) : d \in DurVals}
    \cup {TimeoutOption(d) : d \in DurVals}
    \cup {IntervalOption(d) : d \in DurVals}
    \cup {EmailOption(a[1], a[2], a[3], a[4], a[5], a[6]) : a \in EmailArgs}
    \cup {EmailHandlerOption(hs) : hs \in HandlerLists}
    \cup {NotifierOption(ns) : ns \in NotifierLists}

\* The order in which config.Controller.Options passes the options.
KindRank(o) ==
    CASE o.kind = "delay" -> 1
      [] o.kind = "timeout" -> 2
      [] o.kind = "interval" -> 3
      [] o.kind = "email" -> 4
      [] o.kind = "handlers" -> 5
      [] o.kind = "notifiers" -> 6
      [] OTHER -> 0

\* The option lists NewController and Reconfigure are called with: none, one
\* option, or two options of different kinds. Options of different kinds
\* write different fields of the overlay, so a pair is taken in the order of
\* config.Controller.Options.
OptionLists ==
    {<<>>}
    \cup {<<o>> : o \in Options}
    \cup {os \in {<<o1, o2>> : o1 \in Options, o2 \in Options} :
            KindRank(os[1]) < KindRank(os[2])}

\* ------------------------------------------------------------------------
\* State
\* ------------------------------------------------------------------------

VARIABLES
    ctl,      \* the Controller: whether it exists, and its atomic config value
    rc,       \* each caller's Reconfigure call: position and loaded copy
    calls,    \* number of Reconfigure calls started so far
    last      \* the last completed NewController or Reconfigure call: which,
              \* whether it returned an error, whether the email config it
              \* had to validate lacked a credential, and whether it changed
              \* the published snapshot

VARIABLES
    round     \* one single-fetch round (checkEmails): position, the config
              \* it loaded, what it has used so far, the snapshot that was
              \* published when it loaded, the messages that arrived in its
              \* fetch and what the fetch returned, and the Notify calls

VARIABLES
    mctx,     \* manager.context: "nil" until Start, then "live"
    ctrls,    \* manager.ctrls: per address the ctrl wrapper (stored entry,
              \* Controller object and its published snapshot), and the
              \* entry last applied to the Controller with success
    nextId,   \* the next Controller object to be allocated
    loops,    \* per address: how often ctrl.Run was spawned and where last,
              \* how many of the spawned goroutines have not yet entered
              \* ctrl.Run, the ctrl's cancel handle, how many polling loops
              \* are active
    mlast,    \* the last Start or sync call: which, its error result, and
              \* the length and the addresses of its desired list
    mlog      \* what the last sync call did, entry by entry

VARIABLES
    run       \* one call of Controller.Run: position, its context, the timer
              \* of the initial delay, what woke its wait, the ticker and its
              \* pending tick, the number of CheckEmails calls, whether the
              \* cancellation reached the wait before the timer fired,
              \* whether a CheckEmails call was made with a cancelled context,
              \* where the CheckEmails call in progress returns to, whether
              \* it has repeated a round, whether the cancellation came
              \* after such a repetition, whether a round has panicked and
              \* whether a tick has started a check after that

VARIABLES
    wrap      \* one ctrl wrapper: its cancel handle, the contexts derived by
              \* ctrl.Run and whether each is done, the polling loop run with
              \* each, the contexts Run is called with, and each caller's
              \* position in ctrl.Run with what its last call found

VARIABLES
    fetch     \* one call of fetchEmails: position, its context and handler
              \* chain, what the bulk retrieve has yet to stream, the
              \* messages channel and whether it is closed, the state of the
              \* bulk-retrieve goroutine and its error, the accumulator, the
              \* returned error and emails, and the handlers invoked on each
              \* accumulated email

VARIABLES
    dedup     \* the deduplication filters built so far (the cache of each),
              \* the one in the Controller's snapshot, and the Handle calls
              \* made so far: on which filter, with which key, and the result

VARIABLES
    window    \* the fetch window of a fetch that has selected the mailbox:
              \* maxnum as given and as used, the message count, startid
              \* and stopid

VARIABLES
    rlog      \* the Reconfigure calls on the Controller, as they load the
              \* snapshot and as they return: the caller, the overlay its
              \* options make, and whether it returned an error

ctlVars == <<ctl, rc, calls, last>>

\* The variables of the ctrl wrapper, of the fetch and of the deduplication
\* filter taken alone.
otherVars == <<wrap, fetch, dedup, window, rlog>>

mgrVars == <<mctx, ctrls, nextId, loops, mlast, mlog>>

vars ==
    <<ctl, rc, calls, last, round, run, mctx, ctrls, nextId, loops, mlast, mlog,
      wrap, fetch, dedup, window, rlog>>

\* Goroutines that call Reconfigure on the one Controller.
Callers == {1, 2}

\* Reconfigure is called at most MaxCalls times in one behaviour.
MaxCalls == 2

IdleCall == [pc |-> "idle", config |-> ZeroConfig]

\* An email config that lacks the address, the username or the password.
MissingCredential(e) == e.Addr = "" \/ e.Username = "" \/ e.Password = ""

\* The email config a call with these options has to validate: the one of
\* its email option if it has one, else the one of the loaded snapshot.
MergedInvalid(base, options) ==
    LET new == ApplyOptions(ZeroConfig, options)
    IN  MissingCredential(IF new.Email = EmptyEmail THEN base.Email ELSE new.Email)

\* Controller.loadConfig / Controller.saveConfig on the atomic.Value.
loadConfig == ctl.config

saveConfig(config) == [exists |-> TRUE, config |-> config]

\* NewController(options...): on error no Controller is returned.
NewController(options) ==
    LET r == reconfigure(ZeroConfig, options) IN
    /\ ~ctl.exists
    /\ ctl' = IF r.err THEN ctl ELSE saveConfig(r.config)
    /\ last' = [op |-> "NewController", err |-> r.err,
                invalid |-> MergedInvalid(ZeroConfig, options),
                changed |-> (ctl' # ctl)]
    /\ UNCHANGED <<rc, calls>>

\* Controller.Reconfigure(options...), first half: config := c.loadConfig().
ReconfigureLoad(p) ==
    /\ ctl.exists
    /\ rc[p].pc = "idle"
    /\ calls < MaxCalls
    /\ rc' = [rc EXCEPT ![p] = [pc |-> "loaded", config |-> loadConfig]]
    /\ calls' = calls + 1
    /\ UNCHANGED <<ctl, last>>

\* A Reconfigure that publishes the merged config before it looks at the error.
ReconfigureStoreUnchecked(p, options) ==
    LET r == reconfigure(rc[p].config, options) IN
    /\ rc[p].pc = "loaded"
    /\ ctl' = saveConfig(r.config)
    /\ rc' = [rc EXCEPT ![p] = IdleCall]
    /\ last' = [op |-> "Reconfigure", err |-> r.err,
                invalid |-> MergedInvalid(rc[p].config, options),
                changed |-> (ctl' # ctl)]
    /\ UNCHANGED calls

\* Controller.Reconfigure, second half: config.reconfigure(options...) on the
\* local copy, and c.saveConfig(config) only when it returned no error.
ReconfigureStore(p, options) ==
    LET r == reconfigure(rc[p].config, options) IN
    /\ rc[p].pc = "loaded"
    /\ ctl' = IF r.err THEN ctl ELSE saveConfig(r.config)
    /\ rc' = [rc EXCEPT ![p] = IdleCall]
    /\ last' = [op |-> "Reconfigure", err |-> r.err,
                invalid |-> MergedInvalid(rc[p].config, options),
                changed |-> (ctl' # ctl)]
    /\ UNCHANGED calls

\* ------------------------------------------------------------------------
\* The desired list: config.Controller entries and their conversion
\* ------------------------------------------------------------------------

\* Upper bound on the length of the list the loader returns.
MaxDesired == 2

MgrAddrs == {"imap.a", "imap.b"}

\* The builder types registered by the packages' init functions.
RegisteredHandlers == {"filterread"}

RegisteredNotifiers == {"feishuwebhook"}

\* notice.BuildNotifier: an error for a type without a builder.
BuildNotifier(type) ==
    IF type \in RegisteredNotifiers THEN [err |-> FALSE, value |-> type]
    ELSE [err |-> TRUE, value |-> "nil"]

\* email.BuildHandler.
BuildHandler(type) ==
    IF type \in RegisteredHandlers THEN [err |-> FALSE, value |-> type]
    ELSE [err |-> TRUE, value |-> "nil"]

\* The loops of Controller.Options over the builders: the first error ends it.
RECURSIVE BuildNotifiers(_)
BuildNotifiers(types) ==
    IF types = <<>> THEN [err |-> FALSE, values |-> <<>>]
    ELSE LET b == BuildNotifier(Head(types))
             rest == BuildNotifiers(Tail(types))
         IN  IF b.err \/ rest.err THEN [err |-> TRUE, values |-> <<>>]
             ELSE [err |-> FALSE, values |-> <<b.value>> \o rest.values]

RECURSIVE BuildHandlers(_)
BuildHandlers(types) ==
    IF types = <<>> THEN [err |-> FALSE, values |-> <<>>]
    ELSE LET b == BuildHandler(Head(types))
             rest == BuildHandlers(Tail(types))
         IN  IF b.err \/ rest.err THEN [err |-> TRUE, values |-> <<>>]
             ELSE [err |-> FALSE, values |-> <<b.value>> \o rest.values]

\* config.Controller.Options: the options of an entry, or an error. The
\* durations of an entry are seconds.
EntryOptions(c) ==
    LET hs == BuildHandlers(c.Handlers)
        ns == BuildNotifiers(c.Notifiers)
    IN  IF hs.err \/ ns.err THEN [err |-> TRUE, options |-> <<>>]
        ELSE [err |-> FALSE,
              options |-> << DelayOption(c.Delay), TimeoutOption(c.Timeout),
                             IntervalOption(c.Interval),
                             EmailOption(c.Email.Address, c.Email.Username,
                                         c.Email.Password, c.Email.UseTLS,
                                         c.Email.SkipTLSVerify, c.Email.Number),
                             EmailHandlerOption(hs.values),
                             NotifierOption(ns.values) >>]

\* config.Controller.Controller: NewController on the entry's options; the
\* snapshot of the new Controller, or an error.
EntryController(c) ==
    LET o == EntryOptions(c)
        r == reconfigure(ZeroConfig, o.options)
    IN  IF o.err THEN [err |-> TRUE, config |-> ZeroConfig]
        ELSE IF r.err THEN [err |-> TRUE, config |-> ZeroConfig]
        ELSE [err |-> FALSE, config |-> r.config]

\* Controller.Reconfigure as sync calls it (under the manager's lock, so no
\* other Reconfigure runs): the error, and the snapshot published afterwards.
Reconfigure(snapshot, options) ==
    LET r == reconfigure(snapshot, options)
    IN  [err |-> r.err, config |-> IF r.err THEN snapshot ELSE r.config]

\* The entries a loader returns: for the first address two complete entries
\* that differ in the delay, one without username and one with an unknown
\* notifier type; for the second a complete entry.
EntryOf(addr, delay, username, notifiers) ==
    [Delay |-> delay, Timeout |-> 1, Interval |-> 0,
     Email |-> [Address |-> addr, Username |-> username, Password |-> "p",
                Number |-> 0, UseTLS |-> FALSE, SkipTLSVerify |-> FALSE],
     Handlers |-> <<"filterread">>, Notifiers |-> notifiers]

Entries ==
    { EntryOf("imap.a", 1, "u", <<"feishuwebhook">>),
      EntryOf("imap.a", 2, "u", <<"feishuwebhook">>),
      EntryOf("imap.a", 1, "", <<"feishuwebhook">>),
      EntryOf("imap.a", 1, "u", <<"bogus">>),
      EntryOf("imap.b", 1, "u", <<"feishuwebhook">>) }

DesiredLists == SeqsUpTo(Entries, MaxDesired)

NoEntry == EntryOf("", 0, "", <<>>)

\* An entry with all three credentials whose builder types are registered.
EntryComplete(c) ==
    /\ c.Email.Address # "" /\ c.Email.Username # "" /\ c.Email.Password # ""
    /\ \A i \in 1 .. Len(c.Handlers) : c.Handlers[i] \in RegisteredHandlers
    /\ \A i \in 1 .. Len(c.Notifiers) : c.Notifiers[i] \in RegisteredNotifiers

\* ------------------------------------------------------------------------
\* The manager: table, Start, sync
\* ------------------------------------------------------------------------

NoCtrl ==
    [present |-> FALSE, config |-> NoEntry, id |-> 0, snapshot |-> ZeroConfig,
     applied |-> NoEntry]

NoLoop ==
    [spawned |-> 0, pending |-> 0, cancel |-> "nil", active |-> 0, by |-> "none"]

\* go ctrl.Run(m.context, 0), in Start or in addController.
Spawn(l, by) == [l EXCEPT !.spawned = @ + 1, !.pending = @ + 1, !.by = by]

\* manager.addController: the table entry, and the loop spawned when the
\* manager has a context.
addController(st, snapshot, c) ==
    LET a == c.Email.Address IN
    [st EXCEPT
        !.ctrls[a] = [present |-> TRUE, config |-> c, id |-> st.nextId,
                      snapshot |-> snapshot, applied |-> c],
        !.nextId = @ + 1,
        !.loops[a] = IF st.context # "nil" THEN Spawn(@, "addController") ELSE @]

Logged(st, before, c, outcome) ==
    LET a == c.Email.Address IN
    [st EXCEPT !.log = Append(@,
        [outcome |-> outcome,
         entry |-> c,
         complete |-> EntryComplete(c),
         differs |-> (before.ctrls[a].applied # c),
         changed |-> (st.ctrls[a] # before.ctrls[a]
                        \/ st.loops[a] # before.loops[a])])]

\* joinErrors keeps a non-nil error non-nil: sync's error is modelled by
\* whether it is nil.
joinErrors(err1, err2) == err1 \/ err2

\* A sync that replaces the Controller of a changed entry by a new one.
syncEntryReplaces(st, c) ==
    LET a == c.Email.Address
        ctrl == st.ctrls[a]
        k == EntryController(c)
    IN  IF ctrl.present /\ ctrl.config = c
        THEN Logged(st, st, c, "equal")
        ELSE IF k.err
        THEN Logged([st EXCEPT !.err = joinErrors(@, TRUE)], st, c, "newfail")
        ELSE Logged(addController(st, k.config, c), st, c, "inserted")

\* One iteration of the loop of manager.sync.
syncEntry(st, c) ==
    LET a == c.Email.Address
        ctrl == st.ctrls[a]
    IN  IF ctrl.present
        THEN IF ctrl.config # c
             THEN LET o == EntryOptions(c)
                      r == Reconfigure(ctrl.snapshot, o.options)
                  IN  IF o.err
                      THEN Logged([st EXCEPT !.err = joinErrors(@, TRUE)],
                                  st, c, "buildfail")
                      ELSE IF r.err
                      THEN Logged([st EXCEPT !.err = joinErrors(@, TRUE)],
                                  st, c, "reconfigurefail")
                      ELSE Logged([st EXCEPT !.ctrls[a].snapshot = r.config,
                                             !.ctrls[a].applied = c],
                                  st, c, "reconfigured")
             ELSE Logged(st, st, c, "equal")
        ELSE LET k == EntryController(c)
             IN  IF k.err
                 THEN Logged([st EXCEPT !.err = joinErrors(@, TRUE)],
                             st, c, "newfail")
                 ELSE Logged(addController(st, k.config, c), st, c, "inserted")

\* A loop that returns at the first entry that fails.
RECURSIVE syncLoopStops(_, _)
syncLoopStops(st, controllers) ==
    IF controllers = <<>> \/ st.err THEN st
    ELSE syncLoopStops(syncEntry(st, Head(controllers)), Tail(controllers))

\* for _, c := range controllers
RECURSIVE syncLoop(_, _)
syncLoop(st, controllers) ==
    IF controllers = <<>> THEN st
    ELSE syncLoop(syncEntry(st, Head(controllers)), Tail(controllers))

Flip(b) == 1 - b

\* The loop of manager.sync run from the current state of the manager.
syncResult(controllers) ==
    syncLoop([context |-> mctx, ctrls |-> ctrls, nextId |-> nextId,
              loops |-> loops, err |-> FALSE, log |-> <<>>], controllers)

\* manager.sync when the loader returns a list.
sync(controllers) ==
    \E st \in {syncResult(controllers)} :
        /\ ctrls' = st.ctrls
        /\ nextId' = st.nextId
        /\ loops' = st.loops
        /\ mlast' = [op |-> "sync", seq |-> Flip(mlast.seq), err |-> st.err,
                     n |-> Len(controllers),
                     addrs |-> {controllers[i].Email.Address :
                                   i \in 1 .. Len(controllers)}]
        /\ UNCHANGED mctx

\* manager.sync when the loader returns an error.
syncLoadFails ==
    /\ mlast' = [op |-> "syncload", seq |-> Flip(mlast.seq), err |-> TRUE,
                 n |-> 0, addrs |-> {}]
    /\ UNCHANGED <<mctx, ctrls, nextId, loops>>

\* A Start that derives a context and spawns on every call.
StartAgain ==
    /\ mctx' = "live"
    /\ loops' = [a \in MgrAddrs |->
                    IF ctrls[a].present THEN Spawn(loops[a], "Start")
                    ELSE loops[a]]
    /\ mlast' = [op |-> "start", seq |-> Flip(mlast.seq), err |-> FALSE,
                 n |-> 0, addrs |-> {}]
    /\ UNCHANGED <<ctrls, nextId>>

\* manager.Start
Start ==
    /\ IF mctx = "nil"
       THEN /\ mctx' = "live"
            /\ loops' = [a \in MgrAddrs |->
                            IF ctrls[a].present THEN Spawn(loops[a], "Start")
                            ELSE loops[a]]
       ELSE UNCHANGED <<mctx, loops>>
    /\ mlast' = [op |-> "start", seq |-> Flip(mlast.seq), err |-> FALSE,
                 n |-> 0, addrs |-> {}]
    /\ UNCHANGED <<ctrls, nextId>>

\* ctrl.Run, entered by a spawned goroutine: it starts the polling loop
\* unless the ctrl already has a cancel handle.
ctrlRun(a) ==
    /\ loops[a].pending > 0
    /\ loops' = [loops EXCEPT ![a] =
            IF @.cancel = "nil"
            THEN [@ EXCEPT !.pending = @ - 1, !.cancel = "set", !.active = @ + 1]
            ELSE [@ EXCEPT !.pending = @ - 1]]
    /\ UNCHANGED <<mctx, ctrls, nextId, mlast>>

InitMgr ==
    /\ mctx = "nil"
    /\ ctrls = [a \in MgrAddrs |-> NoCtrl]
    /\ nextId = 1
    /\ loops = [a \in MgrAddrs |-> NoLoop]
    /\ mlast = [op |-> "none", seq |-> 0, err |-> FALSE, n |-> 0, addrs |-> {}]
    /\ mlog = <<>>

\* ------------------------------------------------------------------------
\* Controller.Run
\* ------------------------------------------------------------------------

\* Run performs at most MaxChecks tick-triggered checks in one behaviour.
MaxChecks == 2

\* The interval argument of Run (ctrl.Run passes 0).
RunIntervals == {0, 1}

\* cinterval = time.Minute * 15, in minutes.
DefaultInterval == 15

IdleRun ==
    [pc |-> "idle", ctx |-> "live", timer |-> "none", woken |-> "none",
     delay |-> 0, interval |-> 0, period |-> 0, ticker |-> "none",
     tick |-> FALSE, checks |-> 0, early |-> FALSE, late |-> FALSE,
     ret |-> "none", again |-> FALSE, mid |-> FALSE,
     panicked |-> FALSE, after |-> FALSE, rounds |-> 0, empty |-> FALSE]

\* The channels of firstRun's select that can be received from.
DelayReady(r) ==
    (IF r.timer = "fired" THEN {"timer"} ELSE {})
    \cup (IF r.ctx = "done" THEN {"cancel"} ELSE {})

\* case <-timer.C: fall out of the select to the initial check.
firstRunTimer(r) == [r EXCEPT !.pc = "first", !.timer = "received"]

\* A cancel branch that falls out of the select as the timer branch does.
firstRunDoneChecks(r) ==
    [r EXCEPT !.pc = "first",
              !.timer = IF @ = "fired" THEN "drained" ELSE "stopped"]

\* case <-ctx.Done(): stop the timer, drain its channel if it has fired,
\* and return false, on which Run returns.
firstRunDone(r) ==
    [r EXCEPT !.pc = "returned",
              !.timer = IF @ = "fired" THEN "drained" ELSE "stopped"]

firstRunBranch(r, branch) ==
    IF branch = "timer" THEN firstRunTimer(r) ELSE firstRunDone(r)

\* The context of Run is cancelled; a Run that waits in firstRun's select
\* and has not been woken is woken by it.
Cancel ==
    /\ run.ctx = "live"
    /\ run' = IF run.pc = "parked" /\ run.woken = "none"
              THEN [run EXCEPT !.ctx = "done", !.woken = "cancel",
                               !.early = TRUE]
              ELSE [run EXCEPT !.ctx = "done",
                               !.mid = (run.pc = "check" /\ run.again)]
    /\ UNCHANGED ctl

\* The delay elapses: the timer sends on timer.C.
TimerFires ==
    /\ run.timer = "armed"
    /\ run' = IF run.pc = "parked" /\ run.woken = "none"
              THEN [run EXCEPT !.timer = "fired", !.woken = "timer"]
              ELSE [run EXCEPT !.timer = "fired"]
    /\ UNCHANGED ctl

\* Run calls firstRun: config := c.loadConfig(); with a positive delay the
\* timer is created, otherwise firstRun goes on to the initial check.
RunFirstRun(interval) ==
    /\ ctl.exists
    /\ run.pc = "idle"
    /\ run' = IF loadConfig.Delay > 0
              THEN [run EXCEPT !.pc = "delay", !.timer = "armed",
                               !.delay = loadConfig.Delay,
                               !.interval = interval]
              ELSE [run EXCEPT !.pc = "first", !.delay = loadConfig.Delay,
                               !.interval = interval]
    /\ UNCHANGED ctl

\* firstRun reaches the select while a channel is ready: one of the ready
\* branches is taken.
firstRunSelect(branch) ==
    /\ run.pc = "delay"
    /\ branch \in DelayReady(run)
    /\ run' = [firstRunBranch(run, branch) EXCEPT
                  !.early = (run.ctx = "done" /\ run.timer = "armed")]
    /\ UNCHANGED ctl

\* firstRun reaches the select while no channel is ready: it waits.
firstRunPark ==
    /\ run.pc = "delay"
    /\ DelayReady(run) = {}
    /\ run' = [run EXCEPT !.pc = "parked"]
    /\ UNCHANGED ctl

\* The waiting select resumes with the branch that woke it.
firstRunWake ==
    /\ run.pc = "parked"
    /\ run.woken # "none"
    /\ run' = firstRunBranch(run, run.woken)
    /\ UNCHANGED ctl

\* c.CheckEmails(ctx); return true: the call is entered here, and Run goes
\* on to the ticker when it returns.
RunFirstCheck ==
    /\ run.pc = "first"
    /\ run' = [run EXCEPT !.pc = "check", !.ret = "ticker", !.checks = @ + 1,
                          !.late = @ \/ run.ctx = "done",
                          !.rounds = 0, !.empty = FALSE]
    /\ UNCHANGED ctl

\* How a round (checkEmails) ends: the fetch is cancelled, fails to connect,
\* fails in mid-stream, returns no email or returns emails, or the fetch (with
\* its handlers) or a notifier panics.
RoundKinds ==
    {"cancelled", "connerror", "fetcherror", "empty", "emails",
     "fetchpanic", "notifypanic"}

\* The "more data may be available" result of FetchEmails: only a fetch that
\* has streamed messages can report more data, and a cancelled fetch reports
\* no new data.
FetchEmailsGoon(kind) ==
    IF kind \in {"fetcherror", "emails", "notifypanic"} THEN BOOLEAN
    ELSE {FALSE}

RoundOutcomes ==
    {[kind |-> k, goon |-> g] : k \in RoundKinds, g \in BOOLEAN}

\* A round whose panic is not recovered: it unwinds CheckEmails and Run.
checkEmailsUnrecovered(r, outcome) ==
    IF outcome.kind \in {"fetchpanic", "notifypanic"}
    THEN [r EXCEPT !.pc = "panicked", !.panicked = TRUE, !.again = FALSE]
    ELSE [r EXCEPT !.pc = IF outcome.goon THEN "check" ELSE r.ret,
                   !.again = outcome.goon]

\* The rounds of one CheckEmails call are counted up to RoundsSeen.
RoundsSeen == 2

countRound(n) == IF n < RoundsSeen THEN n + 1 ELSE n

\* A CheckEmails that issues rounds as long as the fetch returns emails.
checkEmailsWhileEmails(r, outcome) ==
    [r EXCEPT !.pc = IF outcome.kind = "emails" THEN "check" ELSE r.ret,
              !.again = outcome.goon,
              !.rounds = countRound(@),
              !.empty = outcome.kind = "empty",
              !.panicked = @ \/ outcome.kind \in {"fetchpanic", "notifypanic"}]

\* checkEmails returns goon to the loop of CheckEmails; a panic is recovered
\* by the deferred defaults.Recover, and goon is returned as it then stands.
\* rounds and empty record the rounds of the call in progress and whether
\* the last one returned on len(emails) == 0.
checkEmails(r, outcome) ==
    [r EXCEPT !.pc = IF outcome.goon THEN "check" ELSE r.ret,
              !.again = outcome.goon,
              !.rounds = countRound(@),
              !.empty = outcome.kind = "empty",
              !.panicked = @ \/ outcome.kind \in {"fetchpanic", "notifypanic"}]

\* for c.checkEmails(ctx) {}: one round of the CheckEmails call in progress.
\* A fetch is cancelled only when the context is done.
CheckEmails(outcome) ==
    /\ run.pc = "check"
    /\ outcome.goon \in FetchEmailsGoon(outcome.kind)
    /\ outcome.kind = "cancelled" => run.ctx = "done"
    /\ run' = checkEmails(run, outcome)
    /\ UNCHANGED ctl

\* The tick period of Run from the snapshot's interval and the argument.
cinterval(config, interval) ==
    IF config.Interval > 0 THEN config.Interval
    ELSE IF interval > 0 THEN interval
    ELSE DefaultInterval

\* ticker := time.NewTicker(cinterval)
RunNewTicker ==
    /\ run.pc = "ticker"
    /\ run' = [run EXCEPT !.pc = "loop", !.ticker = "running",
                          !.period = cinterval(loadConfig, run.interval)]
    /\ UNCHANGED ctl

\* The ticker sends on ticker.C.
TickerFires ==
    /\ run.ticker = "running"
    /\ ~run.tick
    /\ run.checks <= MaxChecks
    /\ run' = [run EXCEPT !.tick = TRUE]
    /\ UNCHANGED ctl

\* The channels of the loop's select that can be received from.
LoopReady(r) ==
    (IF r.tick THEN {"tick"} ELSE {})
    \cup (IF r.ctx = "done" THEN {"cancel"} ELSE {})

\* A loop whose ctx.Done() branch leaves the select but not the loop.
RunSelectStays(branch) ==
    /\ run.pc = "loop"
    /\ branch \in LoopReady(run)
    /\ run' = IF branch = "cancel"
              THEN run
              ELSE [run EXCEPT !.pc = "check", !.ret = "loop",
                               !.tick = FALSE, !.checks = @ + 1,
                               !.late = @ \/ run.ctx = "done",
                               !.after = @ \/ run.panicked,
                               !.rounds = 0, !.empty = FALSE]
    /\ UNCHANGED ctl

\* One iteration of the loop of Run: return when the context is done (the
\* deferred ticker.Stop runs), call CheckEmails on a tick.
RunSelect(branch) ==
    /\ run.pc = "loop"
    /\ branch \in LoopReady(run)
    /\ run' = IF branch = "cancel"
              THEN [run EXCEPT !.pc = "returned", !.ticker = "stopped"]
              ELSE [run EXCEPT !.pc = "check", !.ret = "loop",
                               !.tick = FALSE, !.checks = @ + 1,
                               !.late = @ \/ run.ctx = "done",
                               !.after = @ \/ run.panicked,
                               !.rounds = 0, !.empty = FALSE]
    /\ UNCHANGED ctl

\* ------------------------------------------------------------------------
\* The ctrl wrapper: ctrl.Run and ctrl.Stop
\* ------------------------------------------------------------------------

\* ctrl.Run derives at most MaxRuns contexts in one behaviour.
MaxRuns == 2

\* Goroutines that call ctrl.Run and ctrl.Stop on the one wrapper.
WrapCallers == {1, 2}

\* The contexts ctrl.Run is called with: the Manager's and another one.
ParentCtxs == {"m", "x"}

\* c.cancel == nil
NilCancel == 0

IdleWrapCall ==
    [pc |-> "idle", arg |-> "m", noop |-> FALSE, idle |-> FALSE]

InitWrap ==
    [cancel |-> NilCancel,
     ctx |-> <<>>,
     loop |-> <<>>,
     parents |-> [c \in ParentCtxs |-> "live"],
     call |-> [p \in WrapCallers |-> IdleWrapCall]]

\* The polling loops that have not returned.
ActiveLoops(w) == {i \in 1 .. Len(w.loop) : w.loop[i] = "active"}

\* No loop is active, and one has exited after its context was cancelled.
IdleAgain(w) ==
    /\ ActiveLoops(w) = {}
    /\ \E i \in 1 .. Len(w.loop) : w.loop[i] = "exited"

\* ctrl.Run(ctx, interval), the test: if c.cancel == nil ... else the warning.
ctrlRunTest(p, ctx) ==
    /\ wrap.call[p].pc = "idle"
    /\ Len(wrap.ctx)
          + Cardinality({q \in WrapCallers : wrap.call[q].pc = "derive"}) < MaxRuns
    /\ wrap' = [wrap EXCEPT !.call[p] =
            IF wrap.cancel = NilCancel
            THEN [pc |-> "derive", arg |-> ctx, noop |-> FALSE, idle |-> FALSE]
            ELSE [pc |-> "idle", arg |-> ctx, noop |-> TRUE,
                  idle |-> (IdleAgain(wrap) /\ wrap.parents[ctx] = "live")]]

\* ctx, c.cancel = context.WithCancel(ctx); c.controller.Run(ctx, interval):
\* the child of a cancelled context is cancelled from the start.
ctrlRunDerive(p) ==
    /\ wrap.call[p].pc = "derive"
    /\ wrap' = [wrap EXCEPT
            !.ctx = Append(@, [parent |-> wrap.call[p].arg,
                               state |-> wrap.parents[wrap.call[p].arg]]),
            !.loop = Append(@, "active"),
            !.cancel = Len(wrap.ctx) + 1,
            !.call[p].pc = "idle"]

\* c.controller.Run returns once its context is done, and ctrl.Run after it.
ctrlRunReturn(i) ==
    /\ i \in ActiveLoops(wrap)
    /\ wrap.ctx[i].state = "done"
    /\ wrap' = [wrap EXCEPT !.loop[i] = "exited"]

\* ctrl.Stop: if c.cancel != nil { c.cancel(); c.cancel = nil }
ctrlStop ==
    /\ wrap.cancel # NilCancel
    /\ wrap' = [wrap EXCEPT !.ctx[wrap.cancel].state = "done",
                            !.cancel = NilCancel]

\* A context that ctrl.Run was or will be called with is cancelled, and with
\* it every context derived from it.
ParentCancel(c) ==
    /\ wrap.parents[c] = "live"
    /\ wrap' = [wrap EXCEPT
            !.parents[c] = "done",
            !.ctx = [i \in 1 .. Len(@) |->
                        IF @[i].parent = c THEN [@[i] EXCEPT !.state = "done"]
                        ELSE @[i]]]

\* ------------------------------------------------------------------------
\* The fetch: fetchEmails and handleEmailMessage
\* ------------------------------------------------------------------------

\* The identities (uid) of the messages of the mailbox.
Uids == {1, 2, 3}

\* The capacity of the messages channel.
ChanCap == 2

\* Handlers by what Handle returns: "pass" forwards every email, "rejecttwo"
\* rejects the email 2, "failstop" fails on the emails 2 and 3 with next
\* false, "failnext" fails on every email with next true.
HandlerKinds == {"pass", "rejecttwo", "failstop", "failnext"}

\* next, err := h.Handle(e)
Handle(h, uid) ==
    CASE h = "pass" -> [next |-> TRUE, err |-> FALSE]
      [] h = "rejecttwo" -> [next |-> uid # 2, err |-> FALSE]
      [] h = "failstop" -> [next |-> uid < 2, err |-> uid >= 2]
      [] h = "failnext" -> [next |-> TRUE, err |-> TRUE]

\* The handler chains of a fetch.
Chains == SeqsUpTo(HandlerKinds, 2)

\* The sequences without repetition over a set: the orders in which a set
\* of messages can arrive.
RECURSIVE Orders(_)
Orders(S) ==
    IF S = {} THEN {<<>>}
    ELSE UNION {{<<x>> \o o : o \in Orders(S \ {x})} : x \in S}

Arrivals == UNION {Orders(S) : S \in SUBSET Uids}

\* A chain that lets an error veto the email when next is false.
RECURSIVE handleVetoOnError(_, _, _)
handleVetoOnError(e, chains, i) ==
    IF i > Len(chains) THEN [keep |-> TRUE, calls |-> <<>>]
    ELSE LET r == Handle(chains[i], e)
             rest == handleVetoOnError(e, chains, i + 1)
         IN  IF ~r.next THEN [keep |-> FALSE, calls |-> <<i>>]
             ELSE [keep |-> rest.keep, calls |-> <<i>> \o rest.calls]

\* A chain that remembers a rejection and goes on to the next handler.
RECURSIVE handleNoShortCircuit(_, _, _)
handleNoShortCircuit(e, chains, i) ==
    IF i > Len(chains) THEN [keep |-> TRUE, calls |-> <<>>]
    ELSE LET r == Handle(chains[i], e)
             rest == handleNoShortCircuit(e, chains, i + 1)
         IN  [keep |-> rest.keep /\ (r.err \/ r.next),
              calls |-> <<i>> \o rest.calls]

\* handleEmailMessage from the i-th handler on: whether the email is kept,
\* and the handlers invoked on it, in the order of invocation.
RECURSIVE handleEmailMessage(_, _, _)
handleEmailMessage(e, chains, i) ==
    IF i > Len(chains) THEN [keep |-> TRUE, calls |-> <<>>]
    ELSE LET r == Handle(chains[i], e)
             rest == handleEmailMessage(e, chains, i + 1)
         IN  IF r.err THEN [keep |-> rest.keep, calls |-> <<i>> \o rest.calls]
             ELSE IF ~r.next THEN [keep |-> FALSE, calls |-> <<i>>]
             ELSE [keep |-> rest.keep, calls |-> <<i>> \o rest.calls]

\* less(i, j) of the sort: emails[j].uid < emails[i].uid
less(a, b) == b < a

\* x put into the sorted s before the first element that x is less than.
RECURSIVE insertStable(_, _)
insertStable(x, s) ==
    IF s = <<>> THEN <<x>>
    ELSE IF less(x, Head(s)) THEN <<x>> \o s
    ELSE <<Head(s)>> \o insertStable(x, Tail(s))

\* A finalization that returns the kept emails as they were accumulated.
unsorted(s) == s

\* sort.SliceStable(emails, less)
RECURSIVE sortSliceStable(_)
sortSliceStable(s) ==
    IF s = <<>> THEN <<>>
    ELSE insertStable(s[Len(s)], sortSliceStable(SubSeq(s, 1, Len(s) - 1)))

\* _emails: the accumulated emails for which the chain returns true.
RECURSIVE keptEmails(_, _)
keptEmails(emails, chains) ==
    IF emails = <<>> THEN <<>>
    ELSE (IF handleEmailMessage(Head(emails), chains, 1).keep
          THEN <<Head(emails)>> ELSE <<>>)
         \o keptEmails(Tail(emails), chains)

IdleFetch ==
    [pc |-> "idle", ctx |-> "live", chains |-> <<>>, tosend |-> <<>>,
     messages |-> <<>>, closed |-> FALSE, bulk |-> "none", bulkErr |-> FALSE,
     emails |-> <<>>, err |-> "nil", result |-> <<>>, hlog |-> <<>>]

\* A fetch that post-processes only when the loop ends without an error.
finalizeOnSuccess(f, err) ==
    IF err = "nil"
    THEN [f EXCEPT !.pc = "returned", !.err = err,
                   !.result = sortSliceStable(keptEmails(f.emails, f.chains)),
                   !.hlog = [k \in 1 .. Len(f.emails) |->
                               handleEmailMessage(f.emails[k], f.chains, 1).calls]]
    ELSE [f EXCEPT !.pc = "returned", !.err = err, !.result = f.emails]

\* The deferred function of fetchEmails, run on every return after the
\* mailbox was selected: filter the accumulator through the chain, then sort.
finalize(f, err) ==
    [f EXCEPT !.pc = "returned", !.err = err,
              !.result = sortSliceStable(keptEmails(f.emails, f.chains)),
              !.hlog = [k \in 1 .. Len(f.emails) |->
                           handleEmailMessage(f.emails[k], f.chains, 1).calls]]

\* fetchEmails up to the loop: dial, login and select succeed, the channels
\* are made and the bulk-retrieve goroutine is started.
fetchEmailsStart(arrival, chains) ==
    /\ fetch.pc = "idle"
    /\ fetch' = [fetch EXCEPT !.pc = "loop", !.chains = chains,
                              !.tosend = arrival, !.bulk = "running"]

\* Dial, login or select fails: fetchEmails returns the error before the
\* deferred function is set up.
fetchEmailsConnFails ==
    /\ fetch.pc = "idle"
    /\ fetch' = [fetch EXCEPT !.pc = "returned", !.err = "conn"]

\* imapClient.Fetch puts the next message on the messages channel.
bulkStream ==
    /\ fetch.bulk = "running"
    /\ fetch.tosend # <<>>
    /\ Len(fetch.messages) < ChanCap
    /\ fetch' = [fetch EXCEPT !.messages = Append(@, Head(fetch.tosend)),
                              !.tosend = Tail(@)]

\* imapClient.Fetch closes the messages channel and returns, with nil when
\* everything was streamed or with an error at any point; the goroutine
\* then sends the result on done.
bulkEnds(err) ==
    /\ fetch.bulk = "running"
    /\ err \/ fetch.tosend = <<>>
    /\ fetch' = [fetch EXCEPT !.closed = TRUE, !.bulk = "sending",
                              !.bulkErr = err]

\* The context of the fetch is cancelled, or its timeout expires.
fetchCancel ==
    /\ fetch.ctx = "live"
    /\ fetch.pc \in {"idle", "loop"}
    /\ fetch' = [fetch EXCEPT !.ctx = "done"]

\* case <-ctx.Done(): err = ctx.Err(); return
selectCtxDone ==
    /\ fetch.pc = "loop"
    /\ fetch.ctx = "done"
    /\ fetch' = finalize(fetch, "ctx")

\* case err = <-done: return the error, or go on when it is nil.
selectDone ==
    /\ fetch.pc = "loop"
    /\ fetch.bulk = "sending"
    /\ fetch' = IF fetch.bulkErr
                THEN finalize([fetch EXCEPT !.bulk = "sent"], "fetch")
                ELSE [fetch EXCEPT !.bulk = "sent"]

\* case msg, ok := <-messages: append the message, or return when the
\* channel is closed and empty.
selectMessage ==
    /\ fetch.pc = "loop"
    /\ fetch.messages # <<>> \/ fetch.closed
    /\ fetch' = IF fetch.messages # <<>>
                THEN [fetch EXCEPT !.emails = Append(@, Head(fetch.messages)),
                                   !.messages = Tail(@)]
                ELSE finalize(fetch, fetch.err)

\* ------------------------------------------------------------------------
\* The fetch window: startid and stopid
\* ------------------------------------------------------------------------

\* maxnum, startid and stopid are unsigned integers of UintBits bits. The
\* source has uint32; the width is scaled to 8 bits, which keeps the default
\* of 100 in range, and every pair of values is tried.
UintBits == 8

UintMod == 2 ^ UintBits

Uints == 0 .. UintMod - 1

\* Unsigned subtraction: the result wraps around below zero.
usub(a, b) == (a - b + UintMod) % UintMod

\* if maxnum <= 0 { maxnum = 100 }
DefaultMaxnum == 100

maxnumOf(maxnum) == IF maxnum <= 0 THEN DefaultMaxnum ELSE maxnum

\* var startid uint32; if stopid > maxnum { startid = stopid - maxnum - 1 }
startidOf(maxnum, stopid) ==
    IF stopid > maxnum THEN usub(usub(stopid, maxnum), 1) ELSE 0

IdleWindow == [pc |-> "idle", given |-> 0, maxnum |-> 0, startid |-> 0,
               stopid |-> 0]

\* The mailbox is selected with mailboxStatus.Messages = messages, and the
\* window of seqset.AddRange(startid, stopid) is computed.
fetchEmailsWindow ==
    /\ window.pc = "idle"
    /\ \E maxnum \in Uints, messages \in Uints :
           window' = [pc |-> "ranged", given |-> maxnum,
                      maxnum |-> maxnumOf(maxnum),
                      startid |-> startidOf(maxnumOf(maxnum), messages),
                      stopid |-> messages]

\* The messages of a mailbox of stopid messages have the sequence numbers
\* 1 .. stopid: those of them that lie in the window.
Covered(w) == {m \in 1 .. w.stopid : w.startid <= m /\ m <= w.stopid}

\* ------------------------------------------------------------------------
\* The deduplication filter: FilterAlarmedHandler
\* ------------------------------------------------------------------------

\* Handle is called at most MaxHandles times in one behaviour.
MaxHandles == 3

\* At most MaxBuilds deduplication filters are built in one behaviour.
MaxBuilds == 2

\* The sent dates of the emails, as time.RFC3339 formats them.
Dates == {"2023-01-01T00:00:00Z", "2023-01-02T00:00:00Z"}

\* The emails Handle is called with.
DedupEmails == [uid : {1, 2}, date : Dates]

\* key := fmt.Sprintf("%d_%s", e.UID(), e.Date().Format(time.RFC3339))
cacheKey(e) == <<e.uid, "_", e.date>>

\* A filter that looks the key up and never stores it.
handleAlarmedForgets(caches, e) ==
    [next |-> cacheKey(e) \notin caches, caches |-> caches]

\* The handle function of FilterAlarmedHandler on its caches map: the
\* result, and the map afterwards.
handleAlarmed(caches, e) ==
    [next |-> cacheKey(e) \notin caches,
     caches |-> caches \cup {cacheKey(e)}]

InitDedup == [caches |-> <<>>, cur |-> 0, log |-> <<>>]

\* A Controller is constructed, or reconfigured by sync with a changed
\* entry, with the filter in the entry's handler list: Options builds the
\* handlers anew, the builder of the filter calls FilterAlarmedHandler(),
\* and the new handlers are published in the snapshot.
buildAlarmed ==
    /\ Len(dedup.caches) < MaxBuilds
    /\ dedup' = [dedup EXCEPT !.caches = Append(@, {}),
                              !.cur = Len(dedup.caches) + 1]

\* A check cycle passes an email to the filter of the snapshot.
HandleAlarmed(e) ==
    /\ dedup.cur # 0
    /\ Len(dedup.log) < MaxHandles
    /\ LET r == handleAlarmed(dedup.caches[dedup.cur], e)
       IN  dedup' = [dedup EXCEPT
                !.caches[dedup.cur] = r.caches,
                !.log = Append(@, [filter |-> dedup.cur, key |-> <<e.uid, e.date>>,
                                   next |-> r.next])]

\* ------------------------------------------------------------------------
\* One single-fetch round: Controller.checkEmails
\* ------------------------------------------------------------------------

NothingUsed ==
    [Addr |-> "", Username |-> "", Password |-> "", TLSConf |-> "nil", Num |-> 0,
     Timeout |-> 0, Handlers |-> NilSlice, Notifiers |-> NilSlice]

IdleRound ==
    [pc |-> "idle", config |-> ZeroConfig, from |-> ZeroConfig,
     used |-> NothingUsed, notified |-> FALSE, fetched |-> "none",
     arrival |-> <<>>, batch |-> <<>>, nlog |-> <<>>]

\* The messages that arrive in the fetch of a round, in their order, and
\* the notifiers that fail, while Reconfigure is called.
RoundArrivals == {<<>>, <<2, 3, 1>>}

RoundFails == {{}, {"n1"}}

\* The emails FetchEmails returns for the messages that arrived: filtered
\* through the handlers it was called with, then sorted.
FetchedBatch(arrival, handlers) == sortSliceStable(keptEmails(arrival, handlers))

\* Whether FetchEmails returns an error, and whether it returns emails.
OutcomeOf(err, emails) ==
    IF err THEN (IF emails = <<>> THEN "error" ELSE "partial")
    ELSE (IF emails = <<>> THEN "empty" ELSE "emails")

\* The notifiers of a round.
NotifierNames == {"n1", "n2", "n3"}

\* A loop that notifies every notifier, whether one has succeeded or not.
RECURSIVE notifyEvery(_, _, _)
notifyEvery(notifiers, emails, fails) ==
    IF notifiers = <<>> THEN <<>>
    ELSE <<[notifier |-> Head(notifiers), batch |-> emails,
            ok |-> Head(notifiers) \notin fails]>>
         \o notifyEvery(Tail(notifiers), emails, fails)

\* A loop that passes what is left of the batch after each failure.
RECURSIVE notifyRest(_, _, _)
notifyRest(notifiers, emails, fails) ==
    IF notifiers = <<>> THEN <<>>
    ELSE IF Head(notifiers) \in fails
    THEN <<[notifier |-> Head(notifiers), batch |-> emails, ok |-> FALSE]>>
         \o notifyRest(Tail(notifiers), Tail(emails), fails)
    ELSE <<[notifier |-> Head(notifiers), batch |-> emails, ok |-> TRUE]>>

\* for _, notifier := range config.Notifiers: Notify(ctx, emails...) on each
\* notifier in turn, until one returns no error; the calls made, in order.
RECURSIVE notify(_, _, _)
notify(notifiers, emails, fails) ==
    IF notifiers = <<>> THEN <<>>
    ELSE IF Head(notifiers) \in fails
    THEN <<[notifier |-> Head(notifiers), batch |-> emails, ok |-> FALSE]>>
         \o notify(Tail(notifiers), emails, fails)
    ELSE <<[notifier |-> Head(notifiers), batch |-> emails, ok |-> TRUE]>>

\* What email.FetchEmails returns to checkEmails: an error with no email, an
\* error with emails ("partial"), no email, or a non-empty batch.
FetchOutcomes == {"error", "partial", "empty", "emails"}

\* config := c.loadConfig()
checkEmailsLoad ==
    /\ ctl.exists
    /\ round.pc \in {"idle", "done"}
    /\ round' = [IdleRound EXCEPT !.pc = "loaded", !.config = loadConfig,
                                  !.from = ctl.config]
    /\ UNCHANGED ctlVars

\* A round that looks at the length of the batch before the error.
checkEmailsFetchLenFirst(outcome, arrival) ==
    /\ round.pc = "loaded"
    /\ outcome \in {OutcomeOf(err, FetchedBatch(arrival, round.config.Handlers.elems)) :
                       err \in BOOLEAN}
    /\ round' = [round EXCEPT
            !.arrival = arrival,
            !.batch = FetchedBatch(arrival, round.config.Handlers.elems),
            !.pc = IF outcome \in {"emails", "partial"} THEN "fetched" ELSE "done",
            !.fetched = outcome,
            !.used = [round.used EXCEPT
                         !.Addr = round.config.Email.Addr,
                         !.Username = round.config.Email.Username,
                         !.Password = round.config.Email.Password,
                         !.TLSConf = round.config.Email.TLSConf,
                         !.Num = round.config.Email.Num,
                         !.Timeout = round.config.Timeout,
                         !.Handlers = round.config.Handlers]]
    /\ UNCHANGED ctlVars

\* The timeout context and email.FetchEmails, with the arguments taken from
\* the local config; the round returns on an error and on an empty batch.
checkEmailsFetch(outcome, arrival) ==
    /\ round.pc = "loaded"
    /\ outcome \in {OutcomeOf(err, FetchedBatch(arrival, round.config.Handlers.elems)) :
                       err \in BOOLEAN}
    /\ round' = [round EXCEPT
            !.arrival = arrival,
            !.batch = FetchedBatch(arrival, round.config.Handlers.elems),
            !.pc = IF outcome = "emails" THEN "fetched" ELSE "done",
            !.fetched = outcome,
            !.used = [round.used EXCEPT
                         !.Addr = round.config.Email.Addr,
                         !.Username = round.config.Email.Username,
                         !.Password = round.config.Email.Password,
                         !.TLSConf = round.config.Email.TLSConf,
                         !.Num = round.config.Email.Num,
                         !.Timeout = round.config.Timeout,
                         !.Handlers = round.config.Handlers]]
    /\ UNCHANGED ctlVars

\* A round that reads the notifiers from the Controller again.
checkEmailsNotifyReloads(fails) ==
    /\ round.pc = "fetched"
    /\ round' = [round EXCEPT !.pc = "done", !.notified = TRUE,
                              !.used.Notifiers = loadConfig.Notifiers,
                              !.nlog = notify(loadConfig.Notifiers.elems,
                                              round.batch, fails)]
    /\ UNCHANGED ctlVars

\* The notifier loop of a round that has fetched a non-empty batch; fails
\* are the notifiers whose Notify returns an error.
checkEmailsNotify(fails) ==
    /\ round.pc = "fetched"
    /\ round' = [round EXCEPT !.pc = "done", !.notified = TRUE,
                              !.used.Notifiers = round.config.Notifiers,
                              !.nlog = notify(round.config.Notifiers.elems,
                                              round.batch, fails)]
    /\ UNCHANGED ctlVars

\* ------------------------------------------------------------------------
\* Specifications of the Controller's configuration
\* ------------------------------------------------------------------------

InitCtl ==
    /\ ctl = [exists |-> FALSE, config |-> ZeroConfig]
    /\ rc = [p \in Callers |-> IdleCall]
    /\ calls = 0
    /\ last = [op |-> "none", err |-> FALSE, invalid |-> FALSE, changed |-> FALSE]
    /\ round = IdleRound
    /\ run = IdleRun
    /\ wrap = InitWrap
    /\ fetch = IdleFetch
    /\ dedup = InitDedup
    /\ window = IdleWindow
    /\ rlog = <<>>
    /\ InitMgr

\* NewController and Reconfigure calls from two goroutines.
Next ==
    /\ \/ \E options \in OptionLists : NewController(options)
       \/ \E p \in Callers : ReconfigureLoad(p)
       \/ \E p \in Callers, options \in OptionLists : ReconfigureStore(p, options)
    /\ UNCHANGED <<round, run>>
    /\ UNCHANGED <<mgrVars, otherVars>>

Spec == InitCtl /\ [][Next]_vars

\* The options of the Controller that two goroutines reconfigure.
RaceNewLists ==
    { <<EmailOption("imap.a", "u", "p", FALSE, FALSE, 0)>>,
      <<DelayOption(1), EmailOption("imap.a", "u", "p", FALSE, FALSE, 0)>> }

\* The options of their Reconfigure calls: one field each, a delay with a
\* timeout, and an email config that fails the check.
RaceOptionLists ==
    { <<DelayOption(1)>>, <<TimeoutOption(1)>>,
      <<DelayOption(1), TimeoutOption(1)>>,
      <<EmailOption("imap.a", "v", "p", TRUE, TRUE, 5)>>,
      <<EmailOption("imap.a", "", "p", FALSE, FALSE, 5)>>,
      <<EmailHandlerOption(<<"rejecttwo">>)>>,
      <<NotifierOption(<<"n1">>)>> }

\* The load of a Reconfigure call, recorded.
LoggedLoad(p) ==
    Append(rlog, [caller |-> p, event |-> "load", new |-> ZeroConfig,
                  err |-> FALSE])

\* The return of a Reconfigure call, recorded with the overlay of its
\* options and its error.
LoggedReturn(p, options) ==
    Append(rlog, [caller |-> p, event |-> "return",
                  new |-> ApplyOptions(ZeroConfig, options),
                  err |-> reconfigure(rc[p].config, options).err])

\* Reconfigure calls of two goroutines, each recorded at its load and at
\* its return.
NextRace ==
    /\ \/ (\E options \in RaceNewLists : NewController(options))
             /\ UNCHANGED rlog
       \/ \E p \in Callers : ReconfigureLoad(p) /\ rlog' = LoggedLoad(p)
       \/ \E p \in Callers, options \in RaceOptionLists :
             ReconfigureStore(p, options) /\ rlog' = LoggedReturn(p, options)
    /\ UNCHANGED <<round, run, mgrVars, wrap, fetch, dedup, window>>

SpecRace == InitCtl /\ [][NextRace]_vars

\* The goroutine that calls Reconfigure while the polling loop runs rounds.
RoundCallers == {1}

\* Rounds of the polling loop while another goroutine calls Reconfigure.
NextRound ==
    /\ \/ /\ \/ \E options \in OptionLists : NewController(options)
             \/ \E p \in RoundCallers : ReconfigureLoad(p)
             \/ \E p \in RoundCallers, options \in OptionLists :
                   ReconfigureStore(p, options)
          /\ UNCHANGED round
       \/ checkEmailsLoad
       \/ \E outcome \in FetchOutcomes, arrival \in RoundArrivals :
             checkEmailsFetch(outcome, arrival)
       \/ \E fails \in RoundFails : checkEmailsNotify(fails)
    /\ UNCHANGED <<run, mgrVars, otherVars>>

SpecRound == InitCtl /\ [][NextRound]_vars

\* Rounds of one Controller, for every order of arrival and every set of
\* failing notifiers.
NextNotify ==
    /\ \/ (\E options \in OptionLists : NewController(options))
             /\ UNCHANGED round
       \/ checkEmailsLoad
       \/ \E outcome \in FetchOutcomes, arrival \in Arrivals :
             checkEmailsFetch(outcome, arrival)
       \/ \E fails \in SUBSET NotifierNames : checkEmailsNotify(fails)
    /\ UNCHANGED <<run, mgrVars, otherVars>>

SpecNotify == InitCtl /\ [][NextNotify]_vars

\* ------------------------------------------------------------------------
\* Specification of Controller.Run
\* ------------------------------------------------------------------------

\* One Controller is constructed and Run is called on it once; the context
\* is cancelled and the timers fire at any moment.
NextRun ==
    /\ \/ (\E options \in OptionLists : NewController(options)) /\ UNCHANGED run
       \/ (\E interval \in RunIntervals : RunFirstRun(interval))
             /\ UNCHANGED <<rc, calls, last>>
       \/ /\ \/ Cancel
             \/ TimerFires
             \/ \E branch \in {"timer", "cancel"} : firstRunSelect(branch)
             \/ firstRunPark
             \/ firstRunWake
             \/ RunFirstCheck
             \/ \E outcome \in RoundOutcomes : CheckEmails(outcome)
             \/ RunNewTicker
             \/ TickerFires
             \/ \E branch \in {"tick", "cancel"} : RunSelect(branch)
          /\ UNCHANGED <<rc, calls, last>>
    /\ UNCHANGED <<round, mgrVars, otherVars>>

SpecRun == InitCtl /\ [][NextRun]_vars

\* A step of the goroutine that executes Run.
RunStep(A) == A /\ UNCHANGED <<rc, calls, last, round, mgrVars, otherVars>>

\* The goroutine of Run is scheduled; a select that is evaluated again and
\* again with the context done takes the ctx.Done() branch at some time; a
\* fetch or notifier call returns once its context is cancelled.
FairRun ==
    /\ WF_vars(RunStep(\E branch \in {"timer", "cancel"} : firstRunSelect(branch)))
    /\ WF_vars(RunStep(firstRunPark))
    /\ WF_vars(RunStep(firstRunWake))
    /\ WF_vars(RunStep(RunFirstCheck))
    /\ WF_vars(RunStep(CheckEmails([kind |-> "cancelled", goon |-> FALSE])))
    /\ WF_vars(RunStep(RunNewTicker))
    /\ SF_vars(RunStep(RunSelect("cancel")))

SpecRunLive == SpecRun /\ FairRun

\* ------------------------------------------------------------------------
\* Specification of the ctrl wrapper
\* ------------------------------------------------------------------------

\* Run and Stop calls on one wrapper from two goroutines, and cancellations.
NextWrap ==
    /\ \/ \E p \in WrapCallers, c \in ParentCtxs : ctrlRunTest(p, c)
       \/ \E p \in WrapCallers : ctrlRunDerive(p)
       \/ \E i \in 1 .. MaxRuns + 1 : ctrlRunReturn(i)
       \/ ctrlStop
       \/ \E c \in ParentCtxs : ParentCancel(c)
    /\ UNCHANGED <<ctlVars, round, run, mgrVars, fetch, dedup, window, rlog>>

SpecWrap == InitCtl /\ [][NextWrap]_vars

\* ------------------------------------------------------------------------
\* Specification of the fetch
\* ------------------------------------------------------------------------

\* One fetchEmails call with its bulk-retrieve goroutine, for every order of
\* arrival and every handler chain.
NextFetch ==
    /\ \/ \E arrival \in Arrivals, chains \in Chains :
             fetchEmailsStart(arrival, chains)
       \/ fetchEmailsConnFails
       \/ bulkStream
       \/ \E err \in BOOLEAN : bulkEnds(err)
       \/ fetchCancel
       \/ selectCtxDone
       \/ selectDone
       \/ selectMessage
    /\ UNCHANGED <<ctlVars, round, run, mgrVars, wrap, dedup, window, rlog>>

SpecFetch == InitCtl /\ [][NextFetch]_vars

\* A step of the fetch or of its goroutine.
FetchStep(A) ==
    A /\ UNCHANGED <<ctlVars, round, run, mgrVars, wrap, dedup, window, rlog>>

\* The goroutine and the loop are scheduled: imapClient.Fetch streams while
\* the channel has room and ends at some time (the deferred Logout and
\* Terminate of a fetch that has returned end it with an error), and a
\* branch of the select that stays ready, or is ready again and again, is
\* taken.
FairFetch ==
    /\ WF_vars(FetchStep(bulkStream))
    /\ WF_vars(FetchStep(\E err \in BOOLEAN : bulkEnds(err)))
    /\ SF_vars(FetchStep(selectDone))
    /\ SF_vars(FetchStep(selectMessage))
    /\ SF_vars(FetchStep(selectCtxDone))

SpecFetchLive == SpecFetch /\ FairFetch

\* ------------------------------------------------------------------------
\* Specification of the fetch window
\* ------------------------------------------------------------------------

NextWindow ==
    /\ fetchEmailsWindow
    /\ UNCHANGED <<ctlVars, round, run, mgrVars, wrap, fetch, dedup, rlog>>

SpecWindow == InitCtl /\ [][NextWindow]_vars

\* ------------------------------------------------------------------------
\* Specification of the deduplication filter
\* ------------------------------------------------------------------------

\* Handle calls of check cycles, and filters built by sync.
NextDedup ==
    /\ \/ buildAlarmed
       \/ \E e \in DedupEmails : HandleAlarmed(e)
    /\ UNCHANGED <<ctlVars, round, run, mgrVars, wrap, fetch, window, rlog>>

SpecDedup == InitCtl /\ [][NextDedup]_vars

\* ------------------------------------------------------------------------
\* Specification of the manager
\* ------------------------------------------------------------------------

\* Start and sync calls in any order, and the goroutines they spawn.
NextMgr ==
    /\ \/ Start
       \/ \E controllers \in DesiredLists : sync(controllers)
       \/ syncLoadFails
       \/ \E a \in MgrAddrs : ctrlRun(a)
    /\ UNCHANGED <<ctlVars, round, run, mlog, otherVars>>

SpecMgr == InitCtl /\ [][NextMgr]_vars

\* sync calls, each recorded entry by entry.
NextSync ==
    /\ \/ \E controllers \in DesiredLists :
             sync(controllers) /\ mlog' = syncResult(controllers).log
       \/ syncLoadFails /\ mlog' = <<>>
    /\ UNCHANGED <<ctlVars, round, run, otherVars>>

SpecSync == InitCtl /\ [][NextSync]_vars

\* ------------------------------------------------------------------------
\* Claims about the configuration snapshot
\* ------------------------------------------------------------------------

\* C1: a Reconfigure whose merged email config lacks the address, the
\* username or the password returns an error and leaves the published
\* snapshot exactly as it was before the call.
C1_FailedReconfigureKeepsSnapshot ==
    (last.op = "Reconfigure" /\ last.invalid) => (last.err /\ ~last.changed)

\* A Reconfigure has failed validation on a Controller whose snapshot had
\* been changed by an earlier, successful Reconfigure.
C1_Witness ==
    /\ last.op = "Reconfigure" /\ last.invalid /\ last.err
    /\ ctl.exists /\ ctl.config.Delay > 0 /\ calls = 2

ValidSnapshot(c) ==
    /\ c.Email.Addr # "" /\ c.Email.Username # "" /\ c.Email.Password # ""
    /\ c.Email.Num > 0

\* C2: every published snapshot, and every copy of one a Reconfigure has
\* loaded, has a non-empty address, username and password and a positive
\* max-message count; a NewController that lacks a credential returns an
\* error and no Controller.
C2_PublishedSnapshotsValid ==
    /\ ctl.exists => ValidSnapshot(ctl.config)
    /\ \A p \in Callers : rc[p].pc = "loaded" => ValidSnapshot(rc[p].config)
    /\ (last.op = "NewController" /\ last.invalid) => (last.err /\ ~ctl.exists)
    /\ (last.op # "none" /\ ~last.invalid) => ~last.err

\* Two Reconfigure calls overlap, one has published its snapshot, the other
\* still holds the copy it loaded.
C2_Witness ==
    /\ ctl.exists /\ last.op = "Reconfigure" /\ ~last.err
    /\ \E p \in Callers : rc[p].pc = "loaded" /\ rc[p].config # ctl.config

\* A zero-valued overlay field: a non-positive duration, the zero email
\* config, an empty list.
ZeroFieldsKept(base, new, merged) ==
    /\ new.Delay <= 0 => merged.Delay = base.Delay
    /\ new.Timeout <= 0 => merged.Timeout = base.Timeout
    /\ new.Interval <= 0 => merged.Interval = base.Interval
    /\ new.Email = EmptyEmail => merged.Email = base.Email
    /\ new.Handlers.elems = <<>> => merged.Handlers.elems = base.Handlers.elems
    /\ new.Notifiers.elems = <<>> => merged.Notifiers.elems = base.Notifiers.elems

\* C3: a successful Reconfigure whose overlay has a zero-valued field (a
\* non-positive delay, timeout or interval, the zero email config, an empty
\* handler or notifier list) leaves that field of the snapshot as it was in
\* the loaded base.
C3_ZeroOverlayKeepsBase ==
    [][\A p \in Callers, options \in OptionLists :
          (ReconfigureStore(p, options) /\ ~last'.err)
              => ZeroFieldsKept(rc[p].config, ApplyOptions(ZeroConfig, options),
                                ctl'.config)]_vars

SetFieldsTaken(new, published) ==
    /\ new.Delay > 0 => published.Delay = new.Delay
    /\ new.Timeout > 0 => published.Timeout = new.Timeout
    /\ new.Interval > 0 => published.Interval = new.Interval
    /\ new.Email # EmptyEmail => published.Email = new.Email
    /\ new.Handlers.elems # <<>> => published.Handlers = new.Handlers
    /\ new.Notifiers.elems # <<>> => published.Notifiers = new.Notifiers

\* C4: after NewController or a successful Reconfigure, every overlay field
\* that is set (a positive delay, timeout or interval, a non-zero email
\* config, a non-empty handler or notifier list) is the value of that field
\* in the published snapshot.
C4_SetOverlayIsPublished ==
    [][\A options \in OptionLists :
          /\ (NewController(options) /\ ~last'.err)
                => SetFieldsTaken(ApplyOptions(ZeroConfig, options), ctl'.config)
          /\ \A p \in Callers :
                (ReconfigureStore(p, options) /\ ~last'.err)
                    => SetFieldsTaken(ApplyOptions(ZeroConfig, options),
                                      ctl'.config)]_vars

\* What a round that has reached the fetch has used of a config.
UsedOfFetch(used, c) ==
    /\ used.Addr = c.Email.Addr /\ used.Username = c.Email.Username
    /\ used.Password = c.Email.Password /\ used.TLSConf = c.Email.TLSConf
    /\ used.Num = c.Email.Num /\ used.Timeout = c.Timeout
    /\ used.Handlers = c.Handlers

\* C5: the credentials, max-message count, timeout and handlers a round
\* fetches with, and the notifiers it then notifies, are those of the one
\* snapshot that was published when the round loaded its config, whatever
\* Reconfigure publishes meanwhile; the config the round holds stays that
\* snapshot.
C5_RoundUsesOneSnapshot ==
    /\ round.pc # "idle" => round.config = round.from
    /\ round.pc \in {"fetched", "done"} => UsedOfFetch(round.used, round.from)
    /\ round.notified => round.used.Notifiers = round.from.Notifiers

\* A round has notified after a Reconfigure published other notifiers and
\* another timeout than the round had loaded.
C5_Witness ==
    /\ round.pc = "done" /\ round.notified
    /\ ctl.config.Notifiers # round.from.Notifiers
    /\ ctl.config.Timeout # round.from.Timeout
    /\ round.used.Notifiers.elems # <<>>

\* ------------------------------------------------------------------------
\* Claims about the manager
\* ------------------------------------------------------------------------

\* C6: no loop is spawned before the first Start; once Start has been
\* called, every controller in the table has had its loop spawned exactly
\* once (by Start or at its insertion), and that one loop is waiting to
\* enter ctrl.Run or running: no later Start or sync spawns a second loop
\* or cancels it.
C6_LoopsSpawnedOnce ==
    \A a \in MgrAddrs :
        /\ (mctx = "nil" \/ ~ctrls[a].present) => loops[a] = NoLoop
        /\ (mctx # "nil" /\ ctrls[a].present) =>
              /\ loops[a].spawned = 1
              /\ loops[a].pending + loops[a].active = 1
              /\ loops[a].active = 1 <=> loops[a].cancel = "set"

\* A second Start has returned; one controller was spawned by the first
\* Start and reconfigured by a later sync, the other was inserted and
\* spawned after Start; both loops run.
C6_Witness ==
    /\ mlast.op = "start"
    /\ loops["imap.a"].by = "Start" /\ loops["imap.b"].by = "addController"
    /\ ctrls["imap.a"].applied # ctrls["imap.a"].config
    /\ \A a \in MgrAddrs : loops[a].active = 1

FailOutcomes == {"buildfail", "newfail", "reconfigurefail"}

\* C7: a sync whose loader succeeded has gone through every entry of the
\* desired list, whatever failed before it; a complete entry never fails;
\* an entry that fails leaves the table entry and the loop of its address
\* as they were; and sync returns an error exactly when an entry failed.
C7_SyncAppliesAroundFailures ==
    mlast.op = "sync" =>
        /\ Len(mlog) = mlast.n
        /\ \A i \in 1 .. Len(mlog) :
              /\ mlog[i].complete => mlog[i].outcome \notin FailOutcomes
              /\ mlog[i].outcome \in FailOutcomes => ~mlog[i].changed
        /\ mlast.err <=> \E i \in 1 .. Len(mlog) : mlog[i].outcome \in FailOutcomes

\* A sync has failed to reconfigure the controller of its first entry and
\* has inserted the controller of its second.
C7_Witness ==
    /\ mlast.op = "sync" /\ mlast.err /\ Len(mlog) = 2
    /\ mlog[1].outcome = "reconfigurefail" /\ mlog[2].outcome = "inserted"

\* C8: for an entry whose address is in the table (and whose options can be
\* built), sync calls Reconfigure exactly when the entry differs from the
\* entry last applied to that Controller with success.
C8_ReconfigureIffDiffers ==
    mlast.op = "sync" =>
        \A i \in 1 .. Len(mlog) :
            mlog[i].outcome \in {"equal", "reconfigured", "reconfigurefail"}
                => (mlog[i].outcome # "equal" <=> mlog[i].differs)

\* C9: no step removes a table entry or binds another Controller object to
\* its address, and a sync leaves the table entry and the loop of every
\* address that is not in its desired list as they were.
C9_SyncOnlyAdds ==
    [][\A a \in MgrAddrs :
          /\ ctrls[a].present =>
                (ctrls'[a].present /\ ctrls'[a].id = ctrls[a].id)
          /\ (mlast' # mlast /\ mlast'.op = "sync" /\ a \notin mlast'.addrs)
                => (ctrls'[a] = ctrls[a] /\ loops'[a] = loops[a])]_vars

\* A sync whose desired list names only the second address has returned
\* while the loop of the first address runs and its Controller has been
\* reconfigured before.
C9_Witness ==
    /\ mlast.op = "sync" /\ mlast.addrs = {"imap.b"}
    /\ ctrls["imap.a"].present /\ loops["imap.a"].active = 1
    /\ ctrls["imap.a"].applied # ctrls["imap.a"].config
    /\ ctrls["imap.b"].present

\* ------------------------------------------------------------------------
\* Claims about Controller.Run
\* ------------------------------------------------------------------------

C11_NoCheckAfterCancel == ~run.late

C15_PanicIsRecovered ==
    run.panicked =>
        /\ run.pc \in {"check", "ticker", "loop", "returned"}
        /\ run.pc = "returned" => run.ctx = "done"

\* After a round has panicked, a tick has started a check that is in
\* progress, and the context is live.
C15_Witness ==
    /\ run.after /\ run.pc = "check" /\ run.ret = "loop" /\ run.ctx = "live"

\* C18: a round whose fetch returns an error invokes no notifier and is
\* over, also when the fetch returned emails with the error.
C18_FetchErrorNotifiesNobody ==
    round.fetched \in {"error", "partial"} =>
        (~round.notified /\ round.pc = "done")

\* A round of a Controller with a notifier is over after its fetch returned
\* an error together with emails.
C18_Witness ==
    /\ round.fetched = "partial" /\ round.pc = "done"
    /\ round.config.Notifiers.elems # <<>>

\* ------------------------------------------------------------------------
\* Claims about the ctrl wrapper
\* ------------------------------------------------------------------------

\* C13: whatever the interleaving of Run and Stop calls on one wrapper, at
\* most one polling loop of its controller is active at any time.
C13_AtMostOneLoop == Cardinality(ActiveLoops(wrap)) <= 1

\* C14: a Run that is called with a live context after the polling loop has
\* exited on a cancellation, with no loop active, starts a new loop: it is
\* never the no-op of a wrapper that is still running.
C14_RunAfterExitStarts ==
    \A p \in WrapCallers : ~(wrap.call[p].noop /\ wrap.call[p].idle)

\* ------------------------------------------------------------------------
\* Claims about the fetch
\* ------------------------------------------------------------------------

\* C16: whatever the order in which the messages arrive, the emails a
\* fetch returns are sorted by identity, strictly descending.
C16_ResultDescending ==
    fetch.pc = "returned" =>
        \A i \in 1 .. Len(fetch.result) - 1 :
            fetch.result[i] > fetch.result[i + 1]

\* A fetch has returned three emails that arrived in another order than
\* the descending one.
C16_Witness ==
    /\ fetch.pc = "returned" /\ fetch.err = "nil"
    /\ fetch.emails = <<2, 3, 1>> /\ fetch.result = <<3, 2, 1>>

\* C17: a fetch that returns the cancellation error returns no email: the
\* messages accumulated before the cancellation are discarded.
C17_CancelledFetchReturnsNothing ==
    (fetch.pc = "returned" /\ fetch.err = "ctx") => fetch.result = <<>>

\* The emails of a sequence.
Range(s) == {s[k] : k \in 1 .. Len(s)}

\* The i-th handler of the chain returns next = false and no error for e.
Rejects(e, i) ==
    ~Handle(fetch.chains[i], e).err /\ ~Handle(fetch.chains[i], e).next

\* The i-th handler of the chain returns an error for e.
Fails(e, i) == Handle(fetch.chains[i], e).err

\* C19: on every accumulated email the handlers are invoked in the order of
\* the chain, from the first on; a handler that returns next = false
\* without error is the last one invoked on that email, and the email is
\* not returned; a returned email was rejected by no handler.
C19_ChainShortCircuits ==
    (fetch.pc = "returned" /\ fetch.err # "conn") =>
        \A k \in 1 .. Len(fetch.emails) :
            LET e == fetch.emails[k]
                invoked == fetch.hlog[k]
            IN  /\ \A j \in 1 .. Len(invoked) : invoked[j] = j
                /\ \A i \in 1 .. Len(invoked) :
                      Rejects(e, i) =>
                          (i = Len(invoked) /\ e \notin Range(fetch.result))
                /\ e \in Range(fetch.result) =>
                      \A i \in 1 .. Len(fetch.chains) : ~Rejects(e, i)

\* A fetch with the chain (rejecttwo, pass) has returned: only the first
\* handler was invoked on the email 2, which is not returned, and both on
\* the email 1, which is.
C19_Witness ==
    /\ fetch.pc = "returned" /\ fetch.chains = <<"rejecttwo", "pass">>
    /\ fetch.emails = <<1, 2>> /\ fetch.hlog = <<(<<1, 2>>), (<<1>>)>>
    /\ fetch.result = <<1>>

\* C20: a handler that returns an error, whatever next value comes with it,
\* is followed by the next handler of the chain on the same email, and an
\* email that no invoked handler rejects without error is returned.
C20_HandlerErrorContinues ==
    (fetch.pc = "returned" /\ fetch.err # "conn") =>
        \A k \in 1 .. Len(fetch.emails) :
            LET e == fetch.emails[k]
                invoked == fetch.hlog[k]
            IN  /\ \A i \in 1 .. Len(invoked) :
                      (Fails(e, invoked[i]) /\ invoked[i] < Len(fetch.chains)) =>
                          (i < Len(invoked) /\ invoked[i + 1] = invoked[i] + 1)
                /\ (\A i \in 1 .. Len(invoked) : ~Rejects(e, invoked[i])) =>
                      e \in Range(fetch.result)

\* A fetch with the chain (failstop, pass) has returned the email 3, on
\* which the first handler failed with next = false and the second was
\* invoked.
C20_Witness ==
    /\ fetch.pc = "returned" /\ fetch.chains = <<"failstop", "pass">>
    /\ fetch.emails = <<3>> /\ fetch.hlog = <<(<<1, 2>>)>>
    /\ fetch.result = <<3>>

\* ------------------------------------------------------------------------
\* Claims about the notifier chain
\* ------------------------------------------------------------------------

\* C21: in a round that has fetched a non-empty batch the notifiers are
\* invoked in the order of the list, from the first on and each at most
\* once; none is invoked after one that succeeded; and when every invoked
\* notifier failed, every notifier of the list has been invoked.
C21_NotifiersFailOver ==
    round.notified =>
        LET ns == round.from.Notifiers.elems
            log == round.nlog
        IN  /\ Len(log) <= Len(ns)
            /\ \A j \in 1 .. Len(log) : log[j].notifier = ns[j]
            /\ \A j \in 1 .. Len(log) - 1 : ~log[j].ok
            /\ (\A j \in 1 .. Len(log) : ~log[j].ok) => Len(log) = Len(ns)

\* Of three notifiers the first has failed and the second succeeded; the
\* third has not been invoked.
C21_Witness ==
    /\ round.notified /\ round.from.Notifiers.elems = <<"n1", "n2", "n3">>
    /\ Len(round.nlog) = 2 /\ ~round.nlog[1].ok /\ round.nlog[2].ok

\* C22: every notifier invoked in a round is passed the same batch: all the
\* emails of the round's fetch that the handler chain kept, in descending
\* order of identity, and never an empty batch.
C22_NotifiersGetWholeBatch ==
    \A j \in 1 .. Len(round.nlog) :
        LET b == round.nlog[j].batch
        IN  /\ b # <<>>
            /\ b = round.batch
            /\ \A i \in 1 .. Len(b) - 1 : b[i] > b[i + 1]
            /\ {b[i] : i \in 1 .. Len(b)} =
                  {e \in {round.arrival[i] : i \in 1 .. Len(round.arrival)} :
                      handleEmailMessage(e, round.from.Handlers.elems, 1).keep}

\* Two notifiers have been passed the emails 3 and 1 of the messages 2, 3, 1
\* that arrived, the handler having rejected the email 2.
C22_Witness ==
    /\ round.arrival = <<2, 3, 1>> /\ Len(round.nlog) >= 2
    /\ round.nlog[2].batch = <<3, 1>>

\* ------------------------------------------------------------------------
\* Claims about the deduplication filter
\* ------------------------------------------------------------------------

\* C23: on one filter, a Handle call returns next = true exactly when no
\* earlier call on that filter carried the same (identity, sent date) key,
\* whatever other keys were passed in between.
C23_DedupForwardsKeyOnce ==
    \A i \in 1 .. Len(dedup.log) :
        dedup.log[i].next <=>
            ~\E j \in 1 .. i - 1 :
                /\ dedup.log[j].filter = dedup.log[i].filter
                /\ dedup.log[j].key = dedup.log[i].key

\* One filter has forwarded a key, then another key, and then rejected the
\* first key.
C23_Witness ==
    /\ Len(dedup.log) = 3
    /\ \A i \in 1 .. 3 : dedup.log[i].filter = 1
    /\ dedup.log[1].key = dedup.log[3].key /\ dedup.log[2].key # dedup.log[1].key
    /\ dedup.log[1].next /\ dedup.log[2].next /\ ~dedup.log[3].next

\* C24: across check cycles and reconfigurations by sync, an email with a
\* given key passes the deduplication filter of its mailbox at most once.
C24_KeyPassesOnceInProcess ==
    \A i, j \in 1 .. Len(dedup.log) :
        (dedup.log[i].key = dedup.log[j].key
            /\ dedup.log[i].next /\ dedup.log[j].next) => i = j

\* ------------------------------------------------------------------------
\* Claims about the rounds of one check cycle
\* ------------------------------------------------------------------------

C26_PostProcessingOnEveryReturn ==
    (fetch.pc = "returned" /\ fetch.err # "conn") =>
        /\ Len(fetch.hlog) = Len(fetch.emails)
        /\ \A k \in 1 .. Len(fetch.emails) :
               fetch.hlog[k] =
                   handleEmailMessage(fetch.emails[k], fetch.chains, 1).calls
        /\ Len(fetch.result) = Cardinality(Range(fetch.result))
        /\ Range(fetch.result) =
               {e \in Range(fetch.emails) :
                    handleEmailMessage(e, fetch.chains, 1).keep}

\* The fetch has returned a mid-stream error with two accumulated messages,
\* one of which the chain has rejected.
C26_Witness ==
    /\ fetch.pc = "returned"
    /\ fetch.err = "fetch"
    /\ Len(fetch.emails) = 2
    /\ Len(fetch.result) = 1
    /\ Len(fetch.hlog) = 2

\* C27: a fetch whose bulk retrieve has ended with an error after streaming
\* messages, and whose context is not cancelled, returns that error.
C27_BulkErrorIsReturned ==
    (fetch.pc = "returned" /\ fetch.bulkErr /\ fetch.ctx = "live"
        /\ Len(fetch.emails) + Len(fetch.messages) > 0)
    => fetch.err = "fetch"

\* C28: when the fetch returns the error of the bulk retrieve, no streamed
\* message is left unread on the messages channel.
C28_ErrorLeavesNothingUnread ==
    (fetch.pc = "returned" /\ fetch.err = "fetch") => fetch.messages = <<>>

\* ------------------------------------------------------------------------
\* Claims about the fetch window
\* ------------------------------------------------------------------------

\* C29: for every message count and every maximum (100 when 0), startid is
\* max(0, stopid - maxnum - 1) as the integers have it, with no wrap-around,
\* and the window from startid to stopid covers at most maxnum + 1 messages.
C29_WindowCoversAtMostNPlusOne ==
    window.pc = "ranged" =>
        /\ window.startid =
               (IF window.stopid - window.maxnum - 1 > 0
                THEN window.stopid - window.maxnum - 1 ELSE 0)
        /\ Cardinality(Covered(window)) <= window.maxnum + 1

\* The window is computed as the integers have it.
WindowDoesNotWrap ==
    window.pc = "ranged" =>
        window.startid =
            (IF window.stopid - window.maxnum - 1 > 0
             THEN window.stopid - window.maxnum - 1 ELSE 0)

\* ------------------------------------------------------------------------
\* Claims about the snapshot after a sync
\* ------------------------------------------------------------------------

\* An entry with credentials, a positive delay and timeout and non-empty
\* handler and notifier lists.
FullySpecified(c) ==
    /\ c.Email.Address # "" /\ c.Email.Username # "" /\ c.Email.Password # ""
    /\ c.Delay > 0 /\ c.Timeout > 0
    /\ c.Handlers # <<>> /\ c.Notifiers # <<>>

\* The snapshot has the credentials, delay, timeout, handlers and notifiers
\* that the options of the entry carry.
SnapshotIsEntry(snapshot, c) ==
    LET k == EntryController(c).config
    IN  /\ snapshot.Email.Addr = k.Email.Addr
        /\ snapshot.Email.Username = k.Email.Username
        /\ snapshot.Email.Password = k.Email.Password
        /\ snapshot.Delay = k.Delay
        /\ snapshot.Timeout = k.Timeout
        /\ snapshot.Handlers = k.Handlers
        /\ snapshot.Notifiers = k.Notifiers

\* C30: after a sync that returned no error, the Controller of each address
\* that the desired list names in one, fully specified entry has a published
\* snapshot with the credentials, delay, timeout, handlers and notifiers of
\* that entry, whatever syncs came before.
C30_SnapshotIsDesiredEntry ==
    (mlast.op = "sync" /\ ~mlast.err) =>
        \A i \in 1 .. Len(mlog) :
            LET c == mlog[i].entry
                a == c.Email.Address
            IN  (/\ FullySpecified(c)
                 /\ \A j \in 1 .. Len(mlog) :
                        j # i => mlog[j].entry.Email.Address # a)
                => (ctrls[a].present /\ SnapshotIsEntry(ctrls[a].snapshot, c))

\* ------------------------------------------------------------------------
\* Claims about the goroutine of the fetch
\* ------------------------------------------------------------------------

\* C31: once a fetch has returned, the bulk-retrieve goroutine it spawned
\* (if it got that far) terminates at some time: its send on done is
\* received.
C31_BulkGoroutineTerminates ==
    (fetch.pc = "returned") ~> (fetch.bulk \in {"none", "sent"})

\* ------------------------------------------------------------------------
\* Claims about concurrent Reconfigure calls
\* ------------------------------------------------------------------------

\* Two calls by different goroutines that both loaded the snapshot before
\* either returned, and that both returned no error.
BothSucceededConcurrently ==
    /\ Len(rlog) = 4
    /\ rlog[1].event = "load" /\ rlog[2].event = "load"
    /\ rlog[1].caller # rlog[2].caller
    /\ rlog[3].event = "return" /\ rlog[4].event = "return"
    /\ ~rlog[3].err /\ ~rlog[4].err

\* A field that an overlay sets has, in the end, the value one of the
\* overlays that set it gave it.
FieldOfBoth(seta, setb, vala, valb, final) ==
    (seta \/ setb) =>
        final \in ((IF seta THEN {vala} ELSE {}) \cup (IF setb THEN {valb} ELSE {}))

\* C32: when two concurrent Reconfigure calls on the Controller have both
\* returned no error, the published snapshot has every field that either
\* overlay set (delay, timeout, email config, handlers, notifiers), with the
\* value one of them gave it.
C32_NoReconfigureIsLost ==
    BothSucceededConcurrently =>
        LET a == rlog[3].new
            b == rlog[4].new
            c == ctl.config
        IN  /\ FieldOfBoth(a.Delay > 0, b.Delay > 0, a.Delay, b.Delay, c.Delay)
            /\ FieldOfBoth(a.Timeout > 0, b.Timeout > 0,
                           a.Timeout, b.Timeout, c.Timeout)
            /\ FieldOfBoth(a.Email # EmptyEmail, b.Email # EmptyEmail,
                           a.Email, b.Email, c.Email)
            /\ FieldOfBoth(~a.Handlers.nil, ~b.Handlers.nil,
                           a.Handlers, b.Handlers, c.Handlers)
            /\ FieldOfBoth(~a.Notifiers.nil, ~b.Notifiers.nil,
                           a.Notifiers, b.Notifiers, c.Notifiers)

====
